---- MODULE Spec2Model ----
(***************************************************************************)
(* Model of dictionary.py: the configuration resolver (Environ.load), the  *)
(* connection guard (Connect), the query gateway (Queries) and the         *)
(* interactive shell (Shell, main).                                        *)
(*                                                                         *)
(* Text is a sequence of tokens.  A token is an indivisible piece of text  *)
(* ("=", " ", "1", "MYSQL_HOST", "localhost"); the tokens are chosen so    *)
(* that two different token sequences are two different Python strings.    *)
(* The characters are those below U+0100, which a string here can hold.    *)
(***************************************************************************)
EXTENDS Integers, Sequences, FiniteSets, TLC

VARIABLES
    file,       \* the object passed to Environ.load: kind, lines, read position
    environ,    \* os.environ restricted to the six MYSQL_* names
    loaded,     \* outcome of the latest Environ.load call
    calls,      \* number of Environ.load calls made so far
    args_file,  \* main: --file was given (else a file is default.env)
    debug,      \* __debug__: FALSE when python runs with -O
    pc,         \* where the process stands
    env,        \* Shell.env
    login,      \* Shell._host, _port, _user, _pass
    creds,      \* the credentials login() returns, handed to Connect
    conn,       \* the connection: "none", "open" or "closed"
    closes,     \* number of conn.close() calls that returned
    running,    \* Shell.__running
    db,         \* the words table: committed rows and the session's view
    term,       \* _run: the word read at the prompt
    response,   \* _run: what select returned
    reprompts,  \* _prompt: invalid answers given to the current prompt
    answers,    \* _prompt driven on its own: the answers read, in order
    decision,   \* what _prompt returned in this iteration: addnew / update
    iter,       \* iterations of the main loop started
    queries,    \* the calls made on the Queries gateway, in order
    exc,        \* the exception in flight, once one is raised
    trail,      \* where each exception of the run was raised, oldest first
    out,        \* what the process has printed, in order
    exit_code   \* the process exit status

loadVars == <<file, environ, loaded, calls>>
shellVars == <<args_file, debug, pc, env, login, creds, conn, closes, running,
               term, response, reprompts, answers, decision, iter, exc, trail,
               out, exit_code>>
sqlVars == <<db, queries>>
vars == <<loadVars, shellVars, sqlVars>>

----------------------------------------------------------------------------
(* Bounds of the model *)

\* most lines a configuration file carries besides its recognised keys
MaxExtra == 1
\* most calls of Environ.load
MaxLoads == 2
\* most iterations of the interactive loop
MaxIter == 2
\* most invalid answers given to one yes/no prompt driven on its own
MaxInvalid == 2
\* most invalid answers given to the yes/no prompts in a run of the program
MaxReask == 1
\* most calls made on the gateway when it is driven on its own
MaxQueries == 3
\* most of these calls that raise
MaxRaised == 1

----------------------------------------------------------------------------
(* Python text primitives *)

\* the characters str.strip() removes: tab, line feed, vertical tab, form
\* feed, carriage return, U+001C to U+001F, space, U+0085, U+00A0
Whitespace ==
    {"\t", "\n", "", "\f", "\r", "", "", "", "", " ",
     "", " "}
\* the characters int() skips around a number: U+001C to U+001F are not
\* among them
IntWhitespace == Whitespace \ {"", "", "", ""}
Digits == {"0", "1", "2", "3", "4", "5", "6", "7", "8", "9"}

DigitValue(d) ==
    CASE d = "0" -> 0 [] d = "1" -> 1 [] d = "2" -> 2 [] d = "3" -> 3
      [] d = "4" -> 4 [] d = "5" -> 5 [] d = "6" -> 6 [] d = "7" -> 7
      [] d = "8" -> 8 [] d = "9" -> 9

RECURSIVE LStrip(_, _)
LStrip(s, ws) ==
    IF s # <<>> /\ Head(s) \in ws THEN LStrip(Tail(s), ws) ELSE s

RECURSIVE RStrip(_, _)
RStrip(s, ws) ==
    IF s # <<>> /\ s[Len(s)] \in ws
    THEN RStrip(SubSeq(s, 1, Len(s) - 1), ws)
    ELSE s

\* str.strip()
Strip(s) == RStrip(LStrip(s, Whitespace), Whitespace)
\* the text int() parses, its surrounding whitespace skipped
IntStrip(s) == RStrip(LStrip(s, IntWhitespace), IntWhitespace)

\* str.split(sep): the pieces between the occurrences of sep, in order
RECURSIVE Split(_, _)
Split(s, sep) ==
    IF \A i \in 1..Len(s) : s[i] # sep
    THEN <<s>>
    ELSE LET i == CHOOSE j \in 1..Len(s) :
                      s[j] = sep /\ \A k \in 1..(j - 1) : s[k] # sep
         IN  <<SubSeq(s, 1, i - 1)>> \o Split(SubSeq(s, i + 1, Len(s)), sep)

\* the text int() accepts: optional surrounding whitespace, an optional sign,
\* then digits, single underscores allowed between digits
IntBody(s) ==
    LET t == IntStrip(s)
    IN  IF t # <<>> /\ Head(t) \in {"+", "-"} THEN Tail(t) ELSE t

IsIntLiteral(s) ==
    LET b == IntBody(s)
    IN  /\ b # <<>>
        /\ \A i \in 1..Len(b) : b[i] \in Digits \cup {"_"}
        /\ b[1] \in Digits
        /\ b[Len(b)] \in Digits
        /\ \A i \in 1..(Len(b) - 1) : ~(b[i] = "_" /\ b[i + 1] = "_")

RECURSIVE DigitsValue(_)
DigitsValue(b) ==
    IF b = <<>> THEN 0
    ELSE LET last == b[Len(b)]
             rest == SubSeq(b, 1, Len(b) - 1)
         IN  IF last = "_" THEN DigitsValue(rest)
             ELSE 10 * DigitsValue(rest) + DigitValue(last)

IntLiteralValue(s) ==
    LET t == IntStrip(s)
        v == DigitsValue(IntBody(s))
    IN  IF t # <<>> /\ Head(t) = "-" THEN 0 - v ELSE v

\* Python values that are either an int or a str carry their type
PyStr(s) == [t |-> "str", v |-> s]
PyIntOf(n) == [t |-> "int", v |-> n]

\* int(x) succeeds
IntAccepts(x) == x.t = "int" \/ IsIntLiteral(x.v)

\* int(x), where it succeeds
PyInt(x) == IF x.t = "int" THEN x.v ELSE IntLiteralValue(x.v)


----------------------------------------------------------------------------
(* Environ: the configuration resolver *)

FieldNames == <<"host", "port", "user", "password", "database", "auth_plugin">>
FieldSet == {FieldNames[i] : i \in 1..Len(FieldNames)}

\* Environ.__CONFIG_MAP: parameter name -> environment variable name
CONFIG_MAP ==
    [host |-> "MYSQL_HOST", port |-> "MYSQL_PORT", user |-> "MYSQL_USER",
     password |-> "MYSQL_PASSWORD", database |-> "MYSQL_DATABASE",
     auth_plugin |-> "MYSQL_AUTH"]

EnvNames == {CONFIG_MAP[f] : f \in FieldSet}

\* Environ._DEFAULT_ENV (the port is an int here, text everywhere else)
DEFAULT_ENV ==
    [host |-> PyStr(<<"localhost">>), port |-> PyIntOf(3306),
     user |-> PyStr(<<"root">>), password |-> PyStr(<<"Password">>),
     database |-> PyStr(<<"dictionary">>),
     auth_plugin |-> PyStr(<<"caching_sha2_password">>)]

\* a dict as a function on its keys
EmptyDict == [k \in {} |-> <<>>]
DictSet(d, key, val) ==
    [k \in (DOMAIN d) \cup {key} |-> IF k = key THEN val ELSE d[k]]

Raised(cls, msg) == [status |-> "raised", exc |-> [cls |-> cls, msg |-> msg]]

\* readlines() that reads from the start of the file whatever was read before
ReadLines_FromStart(f) == f.lines

\* file.readlines(): the lines from the read position to the end (a line's
\* terminator is whitespace that strip() removes; it is not represented)
ReadLines(f) == SubSeq(f.lines, f.pos + 1, Len(f.lines))

\* ParseLines without the strip() of line 69
RECURSIVE ParseLines_NoStrip(_, _)
ParseLines_NoStrip(lines, envvars) ==
    IF lines = <<>>
    THEN [status |-> "ok", envvars |-> envvars]
    ELSE LET parts == Split(Head(lines), "=")
         IN  IF Len(parts) < 2
             THEN Raised("ValueError", "not enough values to unpack")
             ELSE IF Len(parts) > 2
             THEN Raised("ValueError", "too many values to unpack")
             ELSE ParseLines_NoStrip(Tail(lines),
                                     DictSet(envvars, parts[1], parts[2]))

\* lines 66-70: every line is stripped, split at '=' and unpacked into
\* (key, val); a later assignment to a key replaces an earlier one
RECURSIVE ParseLines(_, _)
ParseLines(lines, envvars) ==
    IF lines = <<>>
    THEN [status |-> "ok", envvars |-> envvars]
    ELSE LET parts == Split(Strip(Head(lines)), "=")
         IN  IF Len(parts) < 2
             THEN Raised("ValueError", "not enough values to unpack")
             ELSE IF Len(parts) > 2
             THEN Raised("ValueError", "too many values to unpack")
             ELSE ParseLines(Tail(lines), DictSet(envvars, parts[1], parts[2]))

\* MapConfig with envvars.get(val, default) in place of envvars[val]
MapConfig_DefaultFill(envvars) ==
    [status |-> "ok",
     env |-> [f \in FieldSet |->
                IF <<CONFIG_MAP[f]>> \in DOMAIN envvars
                THEN PyStr(envvars[<<CONFIG_MAP[f]>>])
                ELSE DEFAULT_ENV[f]]]

\* lines 72-73: the comprehension over __CONFIG_MAP, in its order
MapConfig(envvars) ==
    IF \E f \in FieldSet : <<CONFIG_MAP[f]>> \notin DOMAIN envvars
    THEN LET i == CHOOSE j \in 1..Len(FieldNames) :
                     /\ <<CONFIG_MAP[FieldNames[j]]>> \notin DOMAIN envvars
                     /\ \A k \in 1..(j - 1) :
                            <<CONFIG_MAP[FieldNames[k]]>> \in DOMAIN envvars
         IN  Raised("KeyError", CONFIG_MAP[FieldNames[i]])
    ELSE [status |-> "ok",
          env |-> [f \in FieldSet |-> PyStr(envvars[<<CONFIG_MAP[f]>>])]]

\* line 77: os.environ.get(v, 0) is truthy
EnvTruthy(osenv, name) == name \in DOMAIN osenv /\ osenv[name] # <<>>

\* MapEnviron falling back per field instead of all-or-nothing
MapEnviron_PerField(osenv) ==
    [f \in FieldSet |->
        IF EnvTruthy(osenv, CONFIG_MAP[f]) THEN PyStr(osenv[CONFIG_MAP[f]])
        ELSE DEFAULT_ENV[f]]

\* MapEnviron reading the password from the user's variable
MapEnviron_WrongKey(osenv) ==
    IF \A f \in FieldSet : EnvTruthy(osenv, CONFIG_MAP[f])
    THEN [f \in FieldSet |->
            PyStr(osenv[CONFIG_MAP[IF f = "password" THEN "user" ELSE f]])]
    ELSE DEFAULT_ENV

\* lines 76-84: all six variables, or the defaults
MapEnviron(osenv) ==
    IF \A f \in FieldSet : EnvTruthy(osenv, CONFIG_MAP[f])
    THEN [f \in FieldSet |-> PyStr(osenv[CONFIG_MAP[f]])]
    ELSE DEFAULT_ENV

\* line 89: env.update(port=int(env.get('port')))
CastPort(d) ==
    IF IntAccepts(d.port)
    THEN [status |-> "ok",
          env |-> [host |-> d.host.v, port |-> PyInt(d.port),
                   user |-> d.user.v, password |-> d.password.v,
                   database |-> d.database.v,
                   auth_plugin |-> d.auth_plugin.v]]
    ELSE Raised("ValueError", "invalid literal for int()")

\* Environ_load falling back to the environment, or the defaults, when the
\* file lacks a recognised key
Environ_load_FallBack(f, osenv) ==
    IF f.kind = "file"
    THEN LET parsed == ParseLines(ReadLines(f), EmptyDict)
         IN  IF parsed.status # "ok" THEN parsed
             ELSE LET mapped == MapConfig(parsed.envvars)
                  IN  IF mapped.status # "ok" THEN CastPort(MapEnviron(osenv))
                      ELSE CastPort(mapped.env)
    ELSE IF f.kind = "none"
    THEN CastPort(MapEnviron(osenv))
    ELSE CastPort(DEFAULT_ENV)

\* Environ.load(file)
Environ_load(f, osenv) ==
    IF f.kind = "file"
    THEN LET parsed == ParseLines(ReadLines(f), EmptyDict)
         IN  IF parsed.status # "ok" THEN parsed
             ELSE LET mapped == MapConfig(parsed.envvars)
                  IN  IF mapped.status # "ok" THEN mapped
                      ELSE CastPort(mapped.env)
    ELSE IF f.kind = "none"
    THEN CastPort(MapEnviron(osenv))
    ELSE CastPort(DEFAULT_ENV)

\* the file object after load: readlines() leaves it at its end
FileAfterLoad(f) ==
    IF f.kind = "file" THEN [f EXCEPT !.pos = Len(f.lines)] ELSE f

----------------------------------------------------------------------------
(* Inputs of the resolver *)

NoFile == [kind |-> "none", lines |-> <<>>, pos |-> 0]
NotAFile == [kind |-> "other", lines |-> <<>>, pos |-> 0]

\* values a configuration file gives to each recognised key
FileValues ==
    [host |-> {<<"example">>, <<>>},
     port |-> {<<"1", "2", "3", "4">>, <<"a">>, <<"-", "1">>, <<>>, <<" ", "7">>,
               <<"", "7">>},
     user |-> {<<"u">>},
     password |-> {<<"p">>, <<"p", "=", "q">>},
     database |-> {<<"d">>, <<>>},
     auth_plugin |-> {<<"mysql_native_password">>}]

\* lines a configuration file may carry besides
ExtraLines ==
    { <<"X", "=", "x">>,                     \* an unrecognised key
      <<"MYSQL_HOST", " ", "=", "x">>,       \* not MYSQL_HOST: the key keeps its blank
      <<" ", "MYSQL_HOST", "=", "other", "\f">>,  \* MYSQL_HOST again
      <<>>,                                  \* a blank line
      <<"x">> }                              \* no separator

ExtraSeqs == UNION {[1..n -> ExtraLines] : n \in 0..MaxExtra}

\* per recognised key: no line, or one line KEY=value
LineOpts(f) ==
    {<<>>} \cup {<< <<CONFIG_MAP[f], "=">> \o v >> : v \in FileValues[f]}

\* the files: the recognised keys in the order of FieldNames, each present
\* or not, with the extra lines before or after them
FileLines ==
    { IF front THEN extra \o (h \o p \o u \o w \o d \o a)
               ELSE (h \o p \o u \o w \o d \o a) \o extra :
        h \in LineOpts("host"), p \in LineOpts("port"), u \in LineOpts("user"),
        w \in LineOpts("password"), d \in LineOpts("database"),
        a \in LineOpts("auth_plugin"), extra \in ExtraSeqs, front \in BOOLEAN }

FileOf(lines) == [kind |-> "file", lines |-> lines, pos |-> 0]

\* values the process environment gives to each variable
EnvValues ==
    [host |-> {<<"eh">>, <<>>},
     port |-> {<<"3", "3", "0", "7">>, <<"a">>, <<"-", "1">>, <<>>,
               <<"7", "\f">>},
     user |-> {<<"eu">>},
     password |-> {<<"ep">>},
     database |-> {<<"ed">>, <<>>},
     auth_plugin |-> {<<"ea">>}]

\* per variable: unset, or set to a value
EnvOpts(f) == {{}} \cup {{<<CONFIG_MAP[f], v>>} : v \in EnvValues[f]}

EnvironOf(pairs) ==
    [n \in {p[1] : p \in pairs} |-> (CHOOSE p \in pairs : p[1] = n)[2]]

Environs ==
    { EnvironOf(h \cup p \cup u \cup w \cup d \cup a) :
        h \in EnvOpts("host"), p \in EnvOpts("port"), u \in EnvOpts("user"),
        w \in EnvOpts("password"), d \in EnvOpts("database"),
        a \in EnvOpts("auth_plugin") }

FullEnviron ==
    [n \in EnvNames |->
        LET f == CHOOSE g \in FieldSet : CONFIG_MAP[g] = n
        IN  IF f = "port" THEN <<"3", "3", "0", "7">> ELSE <<"e", f>>]

EmptyEnviron == [n \in {} |-> <<>>]

NotLoaded == [status |-> "none"]

----------------------------------------------------------------------------
(* Exceptions *)

\* the base class of each exception class met in a run
Base(cls) ==
    CASE cls \in {"IncorrectLogin", "DatabaseNotFound", "AccessDenied"}
            -> "ConnectionFailureError"
      [] cls \in {"ConnectionFailureError", "Error", "EOFError", "TypeError",
                  "ValueError", "KeyError"} -> "Exception"
      [] cls \in {"Exception", "KeyboardInterrupt"} -> "BaseException"
      [] OTHER -> "object"

RECURSIVE IsSubclass(_, _)
IsSubclass(c, d) ==
    \/ c = d
    \/ c # "object" /\ IsSubclass(Base(c), d)

\* an exception object: its class, its message, the driver's error number
\* (mysql.connector.Error only) and the error it wraps
\* (ConnectionFailureError only)
Exc(cls, errno, msg, wrapped) ==
    [cls |-> cls, errno |-> errno, msg |-> msg, error |-> wrapped]

NoExc == Exc("none", "", <<>>, <<>>)
KeyboardInterrupt == Exc("KeyboardInterrupt", "", <<>>, <<>>)
\* input() at end of input; getpass (under -O) raises it with no message
EOFError == Exc("EOFError", "", <<"EOF when reading a line">>, <<>>)
EOFError_getpass == Exc("EOFError", "", <<>>, <<>>)
\* subscripting the None that fetchone returned, line 168
NotSubscriptable ==
    Exc("TypeError", "", <<"'NoneType' object is not subscriptable">>, <<>>)
\* an exception of db.connect that is no driver Error
ArgumentError == Exc("TypeError", "", <<"bad argument">>, <<>>)

\* mysql.connector.Error as the driver raises it
DriverError(errno, msg) == Exc("Error", errno, msg, <<>>)

\* ConnectionFailureError.__init__ and its subclasses
IncorrectLogin(error) ==
    Exc("IncorrectLogin", "",
        <<"Could not login to host with user/password provided.">>, <<error>>)
DatabaseNotFound(error) == Exc("DatabaseNotFound", "", error.msg, <<error>>)
AccessDenied(error) == Exc("AccessDenied", "", error.msg, <<error>>)

\* str(exc): ConnectionFailureError.__str__ gives the message; the driver's
\* Error gives its number and message; KeyboardInterrupt gives ''
StrOf(e) ==
    IF IsSubclass(e.cls, "Error") THEN <<e.errno, ": ">> \o e.msg ELSE e.msg

\* what Environ.load raised, as an exception object
ExcOfLoad(res) == Exc(res.exc.cls, "", <<res.exc.msg>>, <<>>)

----------------------------------------------------------------------------
(* Connect: the connection guard *)

\* the error numbers a failed db.connect is given here
ConnectErrnos ==
    {"ER_ACCESS_DENIED_ERROR", "ER_DBACCESS_DENIED_ERROR", "ER_BAD_DB_ERROR",
     "CR_CONN_HOST_ERROR"}
DriverMessages == {<<"denied">>, <<"unknown">>}

\* what db.connect(**creds) does: a connection, a driver Error, another
\* exception raised on the arguments, or CTRL+C while it waits
ConnectOutcomes ==
    {[ok |-> TRUE, exc |-> NoExc]}
    \cup {[ok |-> FALSE, exc |-> DriverError(n, m)] :
             n \in ConnectErrnos, m \in DriverMessages}
    \cup {[ok |-> FALSE, exc |-> ArgumentError]}
    \cup {[ok |-> FALSE, exc |-> KeyboardInterrupt]}

\* Classify with the two access-denied numbers exchanged
Classify_Swapped(err) ==
    IF err.errno = "ER_DBACCESS_DENIED_ERROR" THEN IncorrectLogin(err)
    ELSE IF err.errno = "ER_ACCESS_DENIED_ERROR" THEN AccessDenied(err)
    ELSE IF err.errno = "ER_BAD_DB_ERROR" THEN DatabaseNotFound(err)
    ELSE err

\* Connect.__enter__, lines 136-143: what is raised for a driver Error
Classify(err) ==
    IF err.errno = "ER_ACCESS_DENIED_ERROR" THEN IncorrectLogin(err)
    ELSE IF err.errno = "ER_DBACCESS_DENIED_ERROR" THEN AccessDenied(err)
    ELSE IF err.errno = "ER_BAD_DB_ERROR" THEN DatabaseNotFound(err)
    ELSE err

\* Connect.__enter__: what leaves it when db.connect raised e
EnterRaises(e) == IF IsSubclass(e.cls, "Error") THEN Classify(e) ELSE e

----------------------------------------------------------------------------
(* Queries: the gateway *)

Words == {<<"foo">>, <<"bar">>}

\* the words table: how many rows hold each word
EmptyTable == [w \in Words |-> 0]
TableWith(w) == [EmptyTable EXCEPT ![w] = 1]

NoRow == [found |-> FALSE, word |-> <<>>]
Row(w) == [found |-> TRUE, word |-> w]

\* what a statement may do: run and commit, fail in execute, fail in
\* commit, or be interrupted by CTRL+C while execute or commit waits
WriteOutcomes ==
    {"ok", "execute_error", "commit_error", "execute_interrupt",
     "commit_interrupt"}
ReadOutcomes == {"ok", "execute_error", "execute_interrupt"}
InterruptOutcomes == {"execute_interrupt", "commit_interrupt"}

QueryError == DriverError("CR_SERVER_LOST", <<"Lost connection">>)

\* what leaves a call of the gateway that did not return
QueryRaises(outcome) ==
    IF outcome \in InterruptOutcomes THEN KeyboardInterrupt ELSE QueryError

\* the SQL statements on a table
SqlSelect(table, word) == IF table[word] > 0 THEN Row(word) ELSE NoRow
SqlInsert(table, new_word) == [table EXCEPT ![new_word] = @ + 1]
SqlUpdate(table, word, new_word) ==
    IF word = new_word THEN table
    ELSE [table EXCEPT ![new_word] = @ + table[word], ![word] = 0]
SqlDelete(table, word) == [table EXCEPT ![word] = 0]

\* a driver call that raised was left while it waited for the server's
\* reply: the server has carried out the request (served) or has not
Served(outcome) == IF outcome = "ok" THEN {TRUE} ELSE BOOLEAN

\* Write without the commit of lines 179, 185, 190
Write_NoCommit(d, table, outcome, served) ==
    IF outcome \in {"execute_error", "execute_interrupt"} /\ ~served THEN d
    ELSE [d EXCEPT !.txn = table]

\* cursor.execute(statement) then connection.commit(), lines 178-179,
\* 183-185, 189-190: the session's view changes at execute, the committed
\* table at commit.  Of the call that raises (execute or commit), the server
\* has carried out the request, or has not
Write(d, table, outcome, served) ==
    IF outcome \in {"execute_error", "execute_interrupt"}
    THEN IF served THEN [d EXCEPT !.txn = table] ELSE d
    ELSE IF outcome \in {"commit_error", "commit_interrupt"} /\ ~served
    THEN [d EXCEPT !.txn = table]
    ELSE [committed |-> table, txn |-> table]

\* Queries.select
Queries_select(d, word) == SqlSelect(d.txn, word)

\* Queries.update changing no row when the old word has rows (arguments
\* bound the wrong way round)
Queries_update_Reversed(d, word, new_word, outcome, served) ==
    Write(d, SqlUpdate(d.txn, new_word, word), outcome, served)

\* Queries.insert
Queries_insert(d, new_word, outcome, served) ==
    Write(d, SqlInsert(d.txn, new_word), outcome, served)

\* Queries.update
Queries_update(d, word, new_word, outcome, served) ==
    Write(d, SqlUpdate(d.txn, word, new_word), outcome, served)

\* Queries.delete
Queries_delete(d, word, outcome, served) ==
    Write(d, SqlDelete(d.txn, word), outcome, served)

\* one call on the gateway, as logged
Call(op, word, new_word, outcome, row) ==
    [op |-> op, word |-> word, new_word |-> new_word, outcome |-> outcome,
     row |-> row]

----------------------------------------------------------------------------
(* Shell: the interactive loop *)

YesTokens == {<<"y">>, <<"Y">>, <<"yes">>, <<"Yes">>}
NoTokens == {<<"n">>, <<"N">>, <<"no">>, <<"No">>}

\* str.lower() on the answers met here
LowerCase(a) ==
    CASE a \in {<<"Y">>} -> <<"y">>
      [] a \in {<<"Yes">>, <<"YES">>} -> <<"yes">>
      [] a \in {<<"N">>} -> <<"n">>
      [] a \in {<<"No">>, <<"NO">>} -> <<"no">>
      [] OTHER -> a

\* PromptAccepts comparing user_input.lower() with the four lower-case tokens
PromptAccepts_AnyCase(user_input) ==
    LowerCase(user_input) \in {<<"y">>, <<"yes">>, <<"n">>, <<"no">>}

\* Shell._prompt, line 337: the answer ends the prompt
PromptAccepts(user_input) == user_input \in YesTokens \cup NoTokens
\* PromptDecision with the long forms missing from the list of line 340
PromptDecision_Short(user_input) == user_input \in {<<"y">>, <<"Y">>}

\* Shell._prompt, lines 340-341: the decision returned
PromptDecision(user_input) == user_input \in YesTokens

\* the value _prompt returned, as the loop holds it in addnew / update;
\* NotDecided while _prompt has not returned in this iteration
NotDecided == "none"
PyBool(b) == IF b THEN "True" ELSE "False"

\* what a user may answer to a yes/no prompt
Answers ==
    YesTokens \cup NoTokens \cup {<<"YES">>, <<"NO">>, <<"maybe">>, <<>>}

\* what a user may answer to the login prompts
LoginAnswers ==
    [login_host |-> {<<"localhost">>},
     login_port |-> {<<>>},
     login_user |-> {<<"root">>},
     login_pass |-> {<<"pw">>}]

Unset == [t |-> "unset", v |-> <<>>]
NoLogin == [host |-> Unset, port |-> Unset, user |-> Unset, pass |-> Unset]
NoCreds ==
    [host |-> Unset, port |-> Unset, user |-> Unset, password |-> Unset,
     database |-> Unset, auth_plugin |-> Unset]
NoEnv ==
    [host |-> <<>>, port |-> 0, user |-> <<>>, password |-> <<>>,
     database |-> <<>>, auth_plugin |-> <<>>]

\* the prompt each input() call shows
PromptText(at) ==
    CASE at = "login_host" -> <<"What host to connect to (localhost): ">>
      [] at = "login_port" -> <<"What port to connect to (3306): ">>
      [] at = "login_user" -> <<"What user to connect to (root): ">>
      [] at = "login_pass" -> <<"What password to connect with: ">>
      [] at = "prompt_term" -> <<"What word do you want to add/change: ">>
      [] at = "prompt_yn" /\ ~response.found ->
            <<"'">> \o term \o <<"' not found. Would you like to add it to the dictionary?\n[y/n] ">>
      [] at = "prompt_yn" /\ response.found ->
            <<"Found: ">> \o response.word \o <<". Would you like to update this word?\n[y/n] ">>
      [] at = "prompt_new" ->
            <<"Update ">> \o response.word \o <<" as: ">>

ConnectedNotice == <<"Connected successfully.\n">>
ClosedNotice == <<"\nConnection closed.\n">>
VersionNotice == <<"MySQL v", "8", "\n">>
RepromptNotice ==
    <<"Please answer 'y' or 'yes' for yes, or 'n' or 'no' for no.">>

\* Shell._exit, line 279: the message printed
ExitMessage(e) == StrOf(e) \o <<"\nExiting.">>

\* Shell.run, lines 298-309: the first except clause that matches, and the
\* exit code it passes to _exit
HandlerCode(e) ==
    IF IsSubclass(e.cls, "IncorrectLogin") THEN 0
    ELSE IF IsSubclass(e.cls, "Error") THEN 1
    ELSE IF IsSubclass(e.cls, "Exception") THEN 1
    ELSE IF IsSubclass(e.cls, "KeyboardInterrupt") THEN 0
    ELSE 1

\* Shell.login, lines 236-242
Credentials(l, e) ==
    [host |-> l.host, port |-> l.port, user |-> l.user, password |-> l.pass,
     database |-> PyStr(e.database), auth_plugin |-> PyStr(e.auth_plugin)]

\* the invalid answers the yes/no prompts were given so far: each but one
\* that CTRL+C followed has its message printed
Reasked == Cardinality({i \in 1..Len(out) : out[i] = RepromptNotice})

LoginPcs == {"login_host", "login_port", "login_user", "login_pass"}
LoopPcs == {"prompt_term", "prompt_yn", "prompt_new"}

\* the state of the shell before main starts
ShellIdle ==
    /\ pc = "main"
    /\ env = NoEnv
    /\ login = NoLogin
    /\ creds = NoCreds
    /\ conn = "none"
    /\ closes = 0
    /\ running = FALSE
    /\ term = <<>>
    /\ response = NoRow
    /\ reprompts = 0
    /\ answers = <<>>
    /\ decision = NotDecided
    /\ iter = 0
    /\ exc = NoExc
    /\ trail = <<>>
    /\ out = <<>>
    /\ exit_code = -1

----------------------------------------------------------------------------
(* The resolver on its own: SpecLoad *)

InitLoad ==
    /\ \/ /\ \E lines \in FileLines : file = FileOf(lines)
          /\ environ \in {EmptyEnviron, FullEnviron}
       \/ /\ file = NoFile
          /\ environ \in Environs
       \/ /\ file = NotAFile
          /\ environ \in {EmptyEnviron, FullEnviron}
    /\ loaded = NotLoaded
    /\ calls = 0
    /\ args_file = FALSE
    /\ debug = TRUE
    /\ ShellIdle
    /\ db = [committed |-> EmptyTable, txn |-> EmptyTable]
    /\ queries = <<>>

LoadFile ==
    /\ file.kind = "file"
    /\ calls < MaxLoads
    /\ loaded' = Environ_load(file, environ)
    /\ file' = FileAfterLoad(file)
    /\ calls' = calls + 1
    /\ UNCHANGED <<environ, shellVars, sqlVars>>

LoadEnviron ==
    /\ file.kind = "none"
    /\ calls < MaxLoads
    /\ loaded' = Environ_load(file, environ)
    /\ file' = FileAfterLoad(file)
    /\ calls' = calls + 1
    /\ UNCHANGED <<environ, shellVars, sqlVars>>

LoadDefaults ==
    /\ file.kind = "other"
    /\ calls < MaxLoads
    /\ loaded' = Environ_load(file, environ)
    /\ file' = FileAfterLoad(file)
    /\ calls' = calls + 1
    /\ UNCHANGED <<environ, shellVars, sqlVars>>

NextLoad == LoadFile \/ LoadEnviron \/ LoadDefaults

SpecLoad == InitLoad /\ [][NextLoad]_vars

\* the caller opens the file again: the next call of load is passed a new
\* file object, at the start of the same contents
Reopen ==
    /\ file.kind = "file"
    /\ calls >= 1
    /\ calls < MaxLoads
    /\ file' = FileOf(file.lines)
    /\ UNCHANGED <<environ, loaded, calls, shellVars, sqlVars>>

NextReload == LoadFile \/ LoadEnviron \/ LoadDefaults \/ Reopen

\* the resolver called again, on the same file object or on a new one
SpecReload == InitLoad /\ [][NextReload]_vars

----------------------------------------------------------------------------
(* The gateway on its own: SpecQueries *)

Tables == [Words -> 0..1]

\* the calls made so far that raised
RaisedCalls == {i \in 1..Len(queries) : queries[i].outcome # "ok"}
\* the outcomes the next call may have
NextOutcomes(outcomes) ==
    IF Cardinality(RaisedCalls) < MaxRaised THEN outcomes ELSE {"ok"}

InitQueries ==
    /\ file = NoFile
    /\ environ = EmptyEnviron
    /\ loaded = NotLoaded
    /\ calls = 0
    /\ args_file = FALSE
    /\ debug = TRUE
    /\ ShellIdle
    /\ \E t \in Tables : db = [committed |-> t, txn |-> t]
    /\ queries = <<>>

Gateway_select ==
    /\ Len(queries) < MaxQueries
    /\ \E w \in Words, o \in NextOutcomes(ReadOutcomes) :
          queries' = Append(queries,
              Call("select", w, <<>>, o,
                   IF o = "ok" THEN Queries_select(db, w) ELSE NoRow))
    /\ UNCHANGED <<db, loadVars, shellVars>>

Gateway_insert ==
    /\ Len(queries) < MaxQueries
    /\ \E w \in Words, o \in NextOutcomes(WriteOutcomes) :
          /\ \E served \in Served(o) : db' = Queries_insert(db, w, o, served)
          /\ queries' = Append(queries, Call("insert", <<>>, w, o, NoRow))
    /\ UNCHANGED <<loadVars, shellVars>>

Gateway_update ==
    /\ Len(queries) < MaxQueries
    /\ \E w \in Words, v \in Words, o \in NextOutcomes(WriteOutcomes) :
          /\ \E served \in Served(o) :
                db' = Queries_update(db, w, v, o, served)
          /\ queries' = Append(queries, Call("update", w, v, o, NoRow))
    /\ UNCHANGED <<loadVars, shellVars>>

Gateway_delete ==
    /\ Len(queries) < MaxQueries
    /\ \E w \in Words, o \in NextOutcomes(WriteOutcomes) :
          /\ \E served \in Served(o) : db' = Queries_delete(db, w, o, served)
          /\ queries' = Append(queries, Call("delete", w, <<>>, o, NoRow))
    /\ UNCHANGED <<loadVars, shellVars>>

NextQueries ==
    Gateway_select \/ Gateway_insert \/ Gateway_update \/ Gateway_delete

SpecQueries == InitQueries /\ [][NextQueries]_vars

----------------------------------------------------------------------------
(* The program: Spec *)

ConfigLine(f, v) == <<CONFIG_MAP[f], "=">> \o v

\* a configuration file with the given port and database, with or without
\* its MYSQL_USER line
ConfigFile(port, database, with_user) ==
    FileOf(<<ConfigLine("host", <<"example">>), ConfigLine("port", port)>>
           \o (IF with_user THEN <<ConfigLine("user", <<"u">>)>> ELSE <<>>)
           \o <<ConfigLine("password", <<"p">>),
                ConfigLine("database", database),
                ConfigLine("auth_plugin", <<"mysql_native_password">>)>>)

\* the command lines, files and environments main is started with: python3
\* (debug), where the login is prompted for, or python3 -O, where it is taken
\* from the configuration
RunConfigs ==
    { [debug |-> TRUE, args_file |-> TRUE, environ |-> EmptyEnviron,
       file |-> ConfigFile(<<"1", "2", "3", "4">>, <<"d">>, TRUE)],
      [debug |-> TRUE, args_file |-> TRUE, environ |-> FullEnviron,
       file |-> ConfigFile(<<"1", "2", "3", "4">>, <<"d">>, FALSE)],
      [debug |-> FALSE, args_file |-> FALSE, environ |-> EmptyEnviron,
       file |-> ConfigFile(<<"-", "1">>, <<>>, TRUE)],
      [debug |-> FALSE, args_file |-> FALSE, environ |-> FullEnviron,
       file |-> NoFile],
      [debug |-> TRUE, args_file |-> FALSE, environ |-> EmptyEnviron,
       file |-> NoFile] }

Init ==
    /\ \E c \in RunConfigs :
          /\ file = c.file
          /\ environ = c.environ
          /\ args_file = c.args_file
          /\ debug = c.debug
    /\ loaded = NotLoaded
    /\ calls = 0
    /\ ShellIdle
    /\ db = [committed |-> TableWith(<<"foo">>), txn |-> TableWith(<<"foo">>)]
    /\ queries = <<>>

\* str(n) for an int n
RECURSIVE NatText(_)
NatText(n) ==
    LET d == n % 10
        digit == CHOOSE c \in Digits : DigitValue(c) = d
    IN  IF n < 10 THEN <<digit>> ELSE NatText(n \div 10) \o <<digit>>
IntText(n) == IF n < 0 THEN <<"-">> \o NatText(0 - n) ELSE NatText(n)

\* main, lines 358, 361, 365: the line printed before the configuration is
\* loaded
Loading ==
    IF args_file THEN <<"Loading env from ", "file.env">>
    ELSE IF file.kind = "file" THEN <<"Loading default env from file.">>
    ELSE <<"Loading environment variables.">>

\* the exit status of a process ended by an exception caught nowhere: the
\* interpreter ends on SIGINT for a KeyboardInterrupt (128 + 2), and with
\* status 1 for another exception
UncaughtStatus(e) == IF e.cls = "KeyboardInterrupt" THEN 130 ELSE 1

\* an exception is raised: it is the one in flight, and trail notes the call
\* or block that raised it
Raise(at, e) ==
    /\ exc' = e
    /\ trail' = Append(trail, [at |-> at, cls |-> e.cls])

\* CTRL+C: the interpreter raises KeyboardInterrupt in the main thread,
\* between two instructions or while a call waits
Sigint(at) == Raise(at, KeyboardInterrupt)

\* the outcome of a call of Environ.load that CTRL+C ended
LoadInterrupted == Raised("KeyboardInterrupt", "")

\* main, and Shell.__init__ in it: the configuration is loaded; a failure
\* of load is caught nowhere and ends the process
Main ==
    /\ pc = "main"
    /\ LET res == Environ_load(file, environ)
       IN  /\ loaded' = res
           /\ file' = FileAfterLoad(file)
           /\ calls' = calls + 1
           /\ out' = Append(out, Loading)
           /\ IF res.status = "ok"
              THEN /\ env' = res.env
                   /\ pc' = "run"
                   /\ UNCHANGED <<exc, trail, exit_code>>
              ELSE /\ Raise("load", ExcOfLoad(res))
                   /\ pc' = "done"
                   /\ exit_code' = UncaughtStatus(exc')
                   /\ UNCHANGED env
    /\ UNCHANGED <<environ, answers, decision, args_file, debug, login, creds,
                   conn, closes, running, term, response, reprompts, iter,
                   sqlVars>>

\* CTRL+C in main or in Shell.__init__, where no handler is in place, once
\* k of these have happened: the line of Loading is written (1), load is
\* called (2), load has read the file (3), load has returned (4), line 209
\* has assigned Shell.env (5)
Interrupt_main ==
    /\ pc = "main"
    /\ \E k \in 0..5 :
          LET res == Environ_load(file, environ)
          IN  /\ k >= 4 => res.status = "ok"
              /\ out' = IF k >= 1 THEN Append(out, Loading) ELSE out
              /\ calls' = IF k >= 2 THEN calls + 1 ELSE calls
              /\ file' = IF k >= 3 THEN FileAfterLoad(file) ELSE file
              /\ loaded' = IF k >= 4 THEN res
                           ELSE IF k >= 2 THEN LoadInterrupted
                           ELSE loaded
              /\ env' = IF k = 5 THEN res.env ELSE env
              /\ Sigint(IF k \in {2, 3} THEN "load" ELSE "main")
    /\ pc' = "done"
    /\ exit_code' = UncaughtStatus(exc')
    /\ UNCHANGED <<environ, args_file, debug, login, creds, conn, closes,
                   running, term, response, reprompts, answers, decision,
                   iter, sqlVars>>

Title == <<"# ========== Dictionary ========== #">>
Instr == <<"# Press CTRL+C to quit.">>

\* what Shell.run prints up to the first input: the banner of _init, and
\* under -O the three lines of auto_login
InitPrints ==
    IF debug THEN <<Title, Instr>>
    ELSE <<Title, Instr,
           PromptText("login_host") \o env.host,
           PromptText("login_port") \o IntText(env.port),
           PromptText("login_user") \o env.user>>

\* auto_login, lines 261-265, once it has assigned n fields
AutoLogin(n) ==
    [host |-> IF n >= 1 THEN PyStr(env.host) ELSE Unset,
     port |-> IF n >= 2 THEN PyIntOf(env.port) ELSE Unset,
     user |-> IF n >= 3 THEN PyStr(env.user) ELSE Unset,
     pass |-> Unset]

\* Shell.run up to the first input: _init, and auto_login's prints under -O
Shell_init ==
    /\ pc = "run"
    /\ out' = out \o InitPrints
    /\ IF debug
       THEN /\ pc' = "login_host"
            /\ UNCHANGED login
       ELSE /\ login' = AutoLogin(3)
            /\ pc' = "login_pass"
    /\ UNCHANGED <<loadVars, answers, decision, args_file, debug, env, creds,
                   conn, closes, running, term, response, reprompts, iter,
                   exc, trail, exit_code, sqlVars>>

\* CTRL+C in Shell.run once k of the lines of InitPrints are written and the
\* next is not.  Under -O each line of auto_login is printed after its field
\* is assigned: with the two lines of the banner and j more written, j
\* fields are assigned, or j + 1
Interrupt_init ==
    /\ pc = "run"
    /\ \E k \in 0..(Len(InitPrints) - 1) :
          /\ out' = out \o SubSeq(InitPrints, 1, k)
          /\ IF debug \/ k < 2
             THEN UNCHANGED login
             ELSE \E n \in {k - 2, k - 1} : login' = AutoLogin(n)
    /\ Sigint("init")
    /\ pc' = "handler"
    /\ UNCHANGED <<loadVars, args_file, debug, env, creds, conn, closes,
                   running, term, response, reprompts, answers, decision,
                   iter, exit_code, sqlVars>>

\* what the process has printed once input() has shown its prompt; getpass
\* (under -O) writes its prompt to the terminal, not to stdout
Prompted == IF pc = "login_pass" /\ ~debug THEN out ELSE Append(out, PromptText(pc))

NextLoginPc ==
    CASE pc = "login_host" -> "login_port"
      [] pc = "login_port" -> "login_user"
      [] pc = "login_user" -> "login_pass"
      [] pc = "login_pass" -> "login"

\* login_prompt / auto_login: one answer is read and assigned
Login_input ==
    /\ pc \in LoginPcs
    /\ \E v \in LoginAnswers[pc] :
          login' = CASE pc = "login_host" -> [login EXCEPT !.host = PyStr(v)]
                     [] pc = "login_port" -> [login EXCEPT !.port = PyStr(v)]
                     [] pc = "login_user" -> [login EXCEPT !.user = PyStr(v)]
                     [] pc = "login_pass" -> [login EXCEPT !.pass = PyStr(v)]
    /\ out' = Prompted
    /\ pc' = NextLoginPc
    /\ UNCHANGED <<loadVars, answers, decision, args_file, debug, env, creds,
                   conn, closes, running, term, response, reprompts, iter,
                   exc, trail, exit_code, sqlVars>>

\* Shell.login, lines 224-242: the credentials are built from the answers
\* and the configuration, and returned
Login_credentials ==
    /\ pc = "login"
    /\ creds' = Credentials(login, env)
    /\ pc' = "connect"
    /\ UNCHANGED <<loadVars, answers, decision, args_file, debug, env, login,
                   conn, closes, running, term, response, reprompts, iter,
                   exc, trail, out, exit_code, sqlVars>>

\* CTRL+C in Shell.login once the password is read, before the credentials
\* are returned
Interrupt_login ==
    /\ pc = "login"
    /\ Sigint("login")
    /\ pc' = "handler"
    /\ UNCHANGED <<loadVars, args_file, debug, env, login, creds, conn,
                   closes, running, term, response, reprompts, answers,
                   decision, iter, out, exit_code, sqlVars>>

\* an input() or getpass() call raises e, its prompt shown or not yet:
\* before the with statement the exception goes to run's handlers, inside
\* it to the except clause of the loop
InputRaises(e, shown) ==
    /\ pc \in LoginPcs \cup LoopPcs
    /\ out' = IF shown THEN Prompted ELSE out
    /\ Raise(pc, e)
    /\ pc' = IF pc \in LoginPcs THEN "handler" ELSE "reraise"
    /\ UNCHANGED <<loadVars, answers, decision, args_file, debug, env, login,
                   creds, conn, closes, running, term, response, reprompts,
                   iter, exit_code, sqlVars>>

\* CTRL+C at a prompt: while input() waits for the answer, or before it has
\* written the prompt
Interrupt == \E shown \in BOOLEAN : InputRaises(KeyboardInterrupt, shown)

\* end of input at a prompt
EndOfInput ==
    InputRaises(IF pc = "login_pass" /\ ~debug THEN EOFError_getpass
                ELSE EOFError, TRUE)

\* CTRL+C once login has returned, before Connect.__enter__ is called
Interrupt_connect ==
    /\ pc = "connect"
    /\ Sigint("connect")
    /\ pc' = "handler"
    /\ UNCHANGED <<loadVars, args_file, debug, env, login, creds, conn,
                   closes, running, term, response, reprompts, answers,
                   decision, iter, out, exit_code, sqlVars>>

\* Connect.__enter__
Connect_enter ==
    /\ pc = "connect"
    /\ \E o \in ConnectOutcomes :
          IF o.ok
          THEN /\ conn' = "open"
               /\ out' = Append(out, ConnectedNotice)
               /\ pc' = "sql"
               /\ UNCHANGED <<exc, trail>>
          ELSE /\ Raise("enter", EnterRaises(o.exc))
               /\ pc' = "handler"
               /\ UNCHANGED <<conn, out>>
    /\ UNCHANGED <<loadVars, answers, decision, args_file, debug, env, login,
                   creds, closes, running, term, response, reprompts, iter,
                   exit_code, sqlVars>>

\* CTRL+C in Connect.__enter__ once db.connect has returned: before line 133
\* writes the notice, or once it is written, before the with block is
\* entered.  __enter__ raises, so __exit__ is not called
Interrupt_enter ==
    /\ pc = "connect"
    /\ conn' = "open"
    /\ \E noticed \in BOOLEAN :
          out' = IF noticed THEN Append(out, ConnectedNotice) ELSE out
    /\ Sigint("enter")
    /\ pc' = "handler"
    /\ UNCHANGED <<loadVars, args_file, debug, env, login, creds, closes,
                   running, term, response, reprompts, answers, decision,
                   iter, exit_code, sqlVars>>

\* Queries.__init__ with its self-test, then line 290; what the self-test
\* raises goes through the except clause of line 162
Queries_init ==
    /\ pc = "sql"
    /\ \E o \in {"ok", "execute_error", "execute_interrupt", "no_row"} :
          /\ queries' = Append(queries, Call("version", <<>>, <<>>, o, NoRow))
          /\ IF o = "ok"
             THEN /\ out' = Append(out, VersionNotice)
                  /\ running' = TRUE
                  /\ pc' = "prompt_term"
                  /\ UNCHANGED <<exc, trail>>
             ELSE /\ Raise("sql", IF o = "no_row" THEN NotSubscriptable
                                  ELSE QueryRaises(o))
                  /\ pc' = "reraise"
                  /\ UNCHANGED <<out, running>>
    /\ UNCHANGED <<loadVars, answers, decision, args_file, debug, env, login,
                   creds, conn, closes, term, response, reprompts, iter,
                   exit_code, db>>

\* CTRL+C in the with block before the loop, once k of these have happened:
\* the version query has returned (1), line 168 has written the version (2)
Interrupt_sql ==
    /\ pc = "sql"
    /\ \E k \in 0..2 :
          /\ queries' = IF k >= 1
                        THEN Append(queries,
                                    Call("version", <<>>, <<>>, "ok", NoRow))
                        ELSE queries
          /\ out' = IF k = 2 THEN Append(out, VersionNotice) ELSE out
    /\ Sigint("sql")
    /\ pc' = "reraise"
    /\ UNCHANGED <<loadVars, args_file, debug, env, login, creds, conn,
                   closes, running, term, response, reprompts, answers,
                   decision, iter, exit_code, db>>

\* CTRL+C at the head of the loop, line 292, outside the try statement of
\* line 293: __running stays set
Interrupt_while ==
    /\ pc = "prompt_term"
    /\ running
    /\ Sigint("while")
    /\ pc' = "cnx_exit"
    /\ UNCHANGED <<loadVars, args_file, debug, env, login, creds, conn,
                   closes, running, term, response, reprompts, answers,
                   decision, iter, out, exit_code, sqlVars>>

\* Shell._run, lines 313-314: a word is read and looked up
Run_word ==
    /\ pc = "prompt_term"
    /\ running
    /\ iter < MaxIter
    /\ \E w \in Words, o \in ReadOutcomes :
          /\ term' = w
          /\ queries' = Append(queries,
                Call("select", w, <<>>, o,
                     IF o = "ok" THEN Queries_select(db, w) ELSE NoRow))
          /\ IF o = "ok"
             THEN /\ response' = Queries_select(db, w)
                  /\ pc' = "prompt_yn"
                  /\ UNCHANGED <<exc, trail>>
             ELSE /\ Raise("select", QueryRaises(o))
                  /\ pc' = "reraise"
                  /\ UNCHANGED response
    /\ out' = Prompted
    /\ iter' = iter + 1
    /\ reprompts' = 0
    /\ decision' = NotDecided
    /\ UNCHANGED <<loadVars, answers, args_file, debug, env, login, creds,
                   conn, closes, running, exit_code, db>>

\* CTRL+C in _run once the word is read: before select is called, or once
\* it has returned, before line 314 assigns the response
Interrupt_select ==
    /\ pc = "prompt_term"
    /\ running
    /\ iter < MaxIter
    /\ \E w \in Words, called \in BOOLEAN :
          /\ term' = w
          /\ queries' = IF called
                        THEN Append(queries,
                                    Call("select", w, <<>>, "ok",
                                         Queries_select(db, w)))
                        ELSE queries
    /\ out' = Prompted
    /\ iter' = iter + 1
    /\ reprompts' = 0
    /\ decision' = NotDecided
    /\ Sigint("_run")
    /\ pc' = "reraise"
    /\ UNCHANGED <<loadVars, args_file, debug, env, login, creds, conn,
                   closes, running, response, answers, exit_code, db>>

\* CTRL+C in _prompt once an answer outside the list is read, before the
\* message of line 338 is printed
Interrupt_reprompt ==
    /\ pc = "prompt_yn"
    /\ Reasked < MaxReask
    /\ \E a \in Answers : ~PromptAccepts(a)
    /\ out' = Prompted
    /\ reprompts' = reprompts + 1
    /\ Sigint("_run")
    /\ pc' = "reraise"
    /\ UNCHANGED <<loadVars, args_file, debug, env, login, creds, conn,
                   closes, running, term, response, answers, decision, iter,
                   exit_code, sqlVars>>

\* CTRL+C in _run once _prompt has returned True for a word not found:
\* before insert is called, or once it has returned, before line 322 prints
Interrupt_insert ==
    /\ pc = "prompt_yn"
    /\ ~response.found
    /\ \E a \in Answers :
          /\ PromptAccepts(a)
          /\ PromptDecision(a)
          /\ decision' = PyBool(PromptDecision(a))
    /\ \E called \in BOOLEAN :
          IF called
          THEN /\ db' = Queries_insert(db, term, "ok", TRUE)
               /\ queries' = Append(queries,
                                    Call("insert", <<>>, term, "ok", NoRow))
          ELSE UNCHANGED <<db, queries>>
    /\ out' = Prompted
    /\ Sigint("_run")
    /\ pc' = "reraise"
    /\ UNCHANGED <<loadVars, args_file, debug, env, login, creds, conn,
                   closes, running, term, response, reprompts, answers, iter,
                   exit_code>>

\* CTRL+C in _run once the replacement is read: before update is called, or
\* once it has returned, before line 332 prints
Interrupt_update ==
    /\ pc = "prompt_new"
    /\ \E new_word \in Words, called \in BOOLEAN :
          IF called
          THEN /\ db' = Queries_update(db, response.word, new_word, "ok", TRUE)
               /\ queries' = Append(queries,
                      Call("update", response.word, new_word, "ok", NoRow))
          ELSE UNCHANGED <<db, queries>>
    /\ out' = Prompted
    /\ Sigint("_run")
    /\ pc' = "reraise"
    /\ UNCHANGED <<loadVars, args_file, debug, env, login, creds, conn,
                   closes, running, term, response, reprompts, answers,
                   decision, iter, exit_code>>

\* Shell._prompt, lines 337-339: an answer outside the list
Prompt_again ==
    /\ pc = "prompt_yn"
    /\ Reasked < MaxReask
    /\ \E a \in Answers : ~PromptAccepts(a)
    /\ out' = Append(Prompted, RepromptNotice)
    /\ reprompts' = reprompts + 1
    /\ UNCHANGED <<loadVars, answers, decision, args_file, debug, pc, env,
                   login, creds, conn, closes, running, term, response, iter,
                   exc, trail, exit_code, sqlVars>>

\* _prompt returns False: nothing is written, the loop starts over
Prompt_no ==
    /\ pc = "prompt_yn"
    /\ \E a \in Answers :
          /\ PromptAccepts(a)
          /\ ~PromptDecision(a)
          /\ decision' = PyBool(PromptDecision(a))
    /\ out' = Prompted
    /\ pc' = "prompt_term"
    /\ UNCHANGED <<loadVars, answers, args_file, debug, env, login, creds,
                   conn, closes, running, term, response, reprompts, iter,
                   exc, trail, exit_code, sqlVars>>

\* Prompt_add without the test of line 315: the word is inserted on yes
\* whether or not select found it
Prompt_add_Found ==
    /\ pc = "prompt_yn"
    /\ \E a \in Answers :
          /\ PromptAccepts(a)
          /\ PromptDecision(a)
          /\ decision' = PyBool(PromptDecision(a))
    /\ \E o \in WriteOutcomes :
          /\ \E served \in Served(o) :
                db' = Queries_insert(db, term, o, served)
          /\ queries' = Append(queries, Call("insert", <<>>, term, o, NoRow))
          /\ IF o = "ok"
             THEN /\ out' = Append(Prompted,
                                   term \o <<" added to the dictionary.">>)
                  /\ pc' = "prompt_term"
                  /\ UNCHANGED <<exc, trail>>
             ELSE /\ out' = Prompted
                  /\ Raise("insert", QueryRaises(o))
                  /\ pc' = "reraise"
    /\ UNCHANGED <<loadVars, answers, args_file, debug, env, login, creds,
                   conn, closes, running, term, response, reprompts, iter,
                   exit_code>>

\* _prompt returns True for a word not found: lines 320-322
Prompt_add ==
    /\ pc = "prompt_yn"
    /\ ~response.found
    /\ \E a \in Answers :
          /\ PromptAccepts(a)
          /\ PromptDecision(a)
          /\ decision' = PyBool(PromptDecision(a))
    /\ \E o \in WriteOutcomes :
          /\ \E served \in Served(o) :
                db' = Queries_insert(db, term, o, served)
          /\ queries' = Append(queries, Call("insert", <<>>, term, o, NoRow))
          /\ IF o = "ok"
             THEN /\ out' = Append(Prompted,
                                   term \o <<" added to the dictionary.">>)
                  /\ pc' = "prompt_term"
                  /\ UNCHANGED <<exc, trail>>
             ELSE /\ out' = Prompted
                  /\ Raise("insert", QueryRaises(o))
                  /\ pc' = "reraise"
    /\ UNCHANGED <<loadVars, answers, args_file, debug, env, login, creds,
                   conn, closes, running, term, response, reprompts, iter,
                   exit_code>>

\* _prompt returns True for a word found: lines 328-330, up to the input
Prompt_update ==
    /\ pc = "prompt_yn"
    /\ response.found
    /\ \E a \in Answers :
          /\ PromptAccepts(a)
          /\ PromptDecision(a)
          /\ decision' = PyBool(PromptDecision(a))
    /\ out' = Prompted
    /\ pc' = "prompt_new"
    /\ UNCHANGED <<loadVars, answers, args_file, debug, env, login, creds,
                   conn, closes, running, term, response, reprompts, iter,
                   exc, trail, exit_code, sqlVars>>

\* lines 330-332: the replacement is read and the word updated
Run_update ==
    /\ pc = "prompt_new"
    /\ \E new_word \in Words, o \in WriteOutcomes :
          /\ \E served \in Served(o) :
                db' = Queries_update(db, response.word, new_word, o, served)
          /\ queries' = Append(queries,
                Call("update", response.word, new_word, o, NoRow))
          /\ IF o = "ok"
             THEN /\ out' = Append(Prompted,
                        <<"Updated ">> \o response.word \o <<" to ">> \o new_word)
                  /\ pc' = "prompt_term"
                  /\ UNCHANGED <<exc, trail>>
             ELSE /\ out' = Prompted
                  /\ Raise("update", QueryRaises(o))
                  /\ pc' = "reraise"
    /\ UNCHANGED <<loadVars, answers, decision, args_file, debug, env, login,
                   creds, conn, closes, running, term, response, reprompts,
                   iter, exit_code>>

\* an exception raised in the with block is on its way out: the except
\* clause of the loop, lines 295-297, clears __running and raises it again;
\* raised before the loop, __running was never set
Reraise ==
    /\ pc = "reraise"
    /\ running' = FALSE
    /\ pc' = "cnx_exit"
    /\ UNCHANGED <<loadVars, answers, decision, args_file, debug, env, login,
                   creds, conn, closes, term, response, reprompts, iter, exc,
                   trail, out, exit_code, sqlVars>>

\* CTRL+C in the except clause of the loop, before line 296 has cleared
\* __running or after, or in the except clause of line 162: the
\* KeyboardInterrupt replaces the exception in flight
Interrupt_reraise ==
    /\ pc = "reraise"
    /\ \E cleared \in BOOLEAN : running' = IF cleared THEN FALSE ELSE running
    /\ Sigint("except")
    /\ pc' = "cnx_exit"
    /\ UNCHANGED <<loadVars, args_file, debug, env, login, creds, conn,
                   closes, term, response, reprompts, answers, decision,
                   iter, out, exit_code, sqlVars>>

\* Connect.__exit__: the with statement is left with an exception in flight;
\* closing discards what the session had not committed
Connect_exit ==
    /\ pc = "cnx_exit"
    /\ conn' = "closed"
    /\ closes' = closes + 1
    /\ db' = [db EXCEPT !.txn = db.committed]
    /\ out' = Append(out, ClosedNotice)
    /\ pc' = "handler"
    /\ UNCHANGED <<loadVars, answers, decision, args_file, debug, env, login,
                   creds, running, term, response, reprompts, iter, exc,
                   trail, exit_code, queries>>

\* CTRL+C in Connect.__exit__ once k of these have happened: conn.close()
\* has returned (1), line 147 has written the notice (2).  Until close has
\* returned the connection is open.  The KeyboardInterrupt replaces the
\* exception that left the with block
Interrupt_exit ==
    /\ pc = "cnx_exit"
    /\ \E k \in 0..2 :
          /\ IF k >= 1
             THEN /\ conn' = "closed"
                  /\ closes' = closes + 1
                  /\ db' = [db EXCEPT !.txn = db.committed]
             ELSE UNCHANGED <<conn, closes, db>>
          /\ out' = IF k = 2 THEN Append(out, ClosedNotice) ELSE out
    /\ Sigint("exit")
    /\ pc' = "handler"
    /\ UNCHANGED <<loadVars, args_file, debug, env, login, creds, running,
                   term, response, reprompts, answers, decision, iter,
                   exit_code, queries>>

\* CTRL+C in an except clause of Shell.run: before _exit prints its message,
\* or once it is printed, before exit is called.  No clause of the same try
\* statement catches it
Interrupt_handler ==
    /\ pc = "handler"
    /\ \E printed \in BOOLEAN :
          out' = IF printed THEN Append(out, ExitMessage(exc)) ELSE out
    /\ Sigint("handler")
    /\ pc' = "done"
    /\ exit_code' = UncaughtStatus(exc')
    /\ UNCHANGED <<loadVars, args_file, debug, env, login, creds, conn,
                   closes, running, term, response, reprompts, answers,
                   decision, iter, sqlVars>>

\* the except clauses of Shell.run, and Shell._exit
Shell_exit ==
    /\ pc = "handler"
    /\ out' = Append(out, ExitMessage(exc))
    /\ exit_code' = HandlerCode(exc)
    /\ pc' = "done"
    /\ UNCHANGED <<loadVars, answers, decision, args_file, debug, env, login,
                   creds, conn, closes, running, term, response, reprompts,
                   iter, exc, trail, sqlVars>>

Next ==
    \/ Main
    \/ Shell_init
    \/ Login_input
    \/ Login_credentials
    \/ Interrupt
    \/ EndOfInput
    \/ Connect_enter
    \/ Queries_init
    \/ Run_word
    \/ Prompt_again
    \/ Prompt_no
    \/ Prompt_add
    \/ Prompt_update
    \/ Run_update
    \/ Reraise
    \/ Connect_exit
    \/ Shell_exit
    \/ Interrupt_main
    \/ Interrupt_init
    \/ Interrupt_login
    \/ Interrupt_connect
    \/ Interrupt_enter
    \/ Interrupt_sql
    \/ Interrupt_while
    \/ Interrupt_select
    \/ Interrupt_reprompt
    \/ Interrupt_insert
    \/ Interrupt_update
    \/ Interrupt_reraise
    \/ Interrupt_exit
    \/ Interrupt_handler

Spec == Init /\ [][Next]_vars

----------------------------------------------------------------------------
(* The program, and the gateway called by another client: SpecWrites *)

\* a client other than Shell holds a Queries object on a connected session
\* of the same database
InitGateway ==
    /\ file = NoFile
    /\ environ = EmptyEnviron
    /\ loaded = NotLoaded
    /\ calls = 0
    /\ args_file = FALSE
    /\ debug = TRUE
    /\ pc = "gateway"
    /\ env = NoEnv
    /\ login = NoLogin
    /\ creds = NoCreds
    /\ conn = "none"
    /\ closes = 0
    /\ running = FALSE
    /\ term = <<>>
    /\ response = NoRow
    /\ reprompts = 0
    /\ answers = <<>>
    /\ decision = NotDecided
    /\ iter = 0
    /\ exc = NoExc
    /\ trail = <<>>
    /\ out = <<>>
    /\ exit_code = -1
    /\ db = [committed |-> TableWith(<<"foo">>), txn |-> TableWith(<<"foo">>)]
    /\ queries = <<>>

InitWrites == Init \/ InitGateway

Client_select == pc = "gateway" /\ Gateway_select
Client_insert == pc = "gateway" /\ Gateway_insert
Client_update == pc = "gateway" /\ Gateway_update
Client_delete == pc = "gateway" /\ Gateway_delete

NextWrites ==
    Next \/ Client_select \/ Client_insert \/ Client_update \/ Client_delete

\* every write of the gateway: those the loop makes, and those of a client
\* that calls insert, update and delete in any order
SpecWrites == InitWrites /\ [][NextWrites]_vars

----------------------------------------------------------------------------
(* The yes/no prompt on its own: SpecPrompt *)

\* Shell._prompt has been called with the prompt of line 316 or 324
InitPrompt ==
    /\ file = NoFile
    /\ environ = EmptyEnviron
    /\ loaded = NotLoaded
    /\ calls = 0
    /\ args_file = FALSE
    /\ debug = TRUE
    /\ pc = "prompt_yn"
    /\ env = NoEnv
    /\ login = NoLogin
    /\ creds = NoCreds
    /\ conn = "none"
    /\ closes = 0
    /\ running = FALSE
    /\ \E w \in Words :
          /\ term = w
          /\ response \in {NoRow, Row(w)}
    /\ reprompts = 0
    /\ answers = <<>>
    /\ decision = NotDecided
    /\ iter = 0
    /\ exc = NoExc
    /\ trail = <<>>
    /\ out = <<>>
    /\ exit_code = -1
    /\ db = [committed |-> EmptyTable, txn |-> EmptyTable]
    /\ queries = <<>>

\* lines 336-339: the answer read is not in the list; the message is
\* printed and the prompt shown again
Prompt_reask ==
    /\ pc = "prompt_yn"
    /\ reprompts < MaxInvalid
    /\ \E user_input \in Answers :
          /\ ~PromptAccepts(user_input)
          /\ answers' = Append(answers, user_input)
    /\ out' = Append(Prompted, RepromptNotice)
    /\ reprompts' = reprompts + 1
    /\ UNCHANGED <<loadVars, args_file, debug, pc, env, login, creds, conn,
                   closes, running, term, response, decision, iter, exc,
                   trail, exit_code, sqlVars>>

\* lines 336-341: the answer read is in the list; _prompt returns
Prompt_return ==
    /\ pc = "prompt_yn"
    /\ \E user_input \in Answers :
          /\ PromptAccepts(user_input)
          /\ answers' = Append(answers, user_input)
          /\ decision' = PyBool(PromptDecision(user_input))
    /\ out' = Prompted
    /\ pc' = "returned"
    /\ UNCHANGED <<loadVars, args_file, debug, env, login, creds, conn,
                   closes, running, term, response, reprompts, iter, exc,
                   trail, exit_code, sqlVars>>

NextPrompt == Prompt_reask \/ Prompt_return

SpecPrompt == InitPrompt /\ [][NextPrompt]_vars

----------------------------------------------------------------------------
(* Properties of the resolver *)

\* the default parameter set of the specification
DefaultParameters ==
    [host |-> <<"localhost">>, port |-> 3306, user |-> <<"root">>,
     password |-> <<"Password">>, database |-> <<"dictionary">>,
     auth_plugin |-> <<"caching_sha2_password">>]

EnvMissing(n) == n \notin DOMAIN environ \/ environ[n] = <<>>

\* C4: resolve with no file and at least one of the six environment
\* variables missing or empty returns exactly the default parameter set;
\* no field takes its value from a variable that was present.
C4_AllOrNothingDefaults ==
    (/\ file.kind = "none"
     /\ loaded.status # "none"
     /\ \E n \in EnvNames : EnvMissing(n))
    => (loaded.status = "ok" /\ loaded.env = DefaultParameters)

\* some variables are set, one is not, and resolve has returned
C4_Witness ==
    /\ file.kind = "none"
    /\ loaded.status = "ok"
    /\ ~EnvMissing("MYSQL_HOST") /\ ~EnvMissing("MYSQL_PORT")
    /\ ~EnvMissing("MYSQL_USER") /\ ~EnvMissing("MYSQL_PASSWORD")
    /\ ~EnvMissing("MYSQL_AUTH")
    /\ EnvMissing("MYSQL_DATABASE")

\* C5: resolve with no file and all six environment variables present and
\* non-empty returns, field by field, the variables' values, the port as
\* the integer its text denotes (and returns whenever that text is numeric).
C5_FullEnvironUsed ==
    (/\ file.kind = "none"
     /\ loaded.status # "none"
     /\ \A n \in EnvNames : ~EnvMissing(n))
    => /\ loaded.status = "ok" <=> IsIntLiteral(environ["MYSQL_PORT"])
       /\ loaded.status = "ok" =>
            /\ \A f \in FieldSet \ {"port"} :
                   loaded.env[f] = environ[CONFIG_MAP[f]]
            /\ loaded.env.port = IntLiteralValue(environ["MYSQL_PORT"])
            /\ environ["MYSQL_PORT"] = <<"3", "3", "0", "7">>
                   => loaded.env.port = 3307
            /\ environ["MYSQL_PORT"] = <<"-", "1">> => loaded.env.port = 0 - 1

\* all six variables are set, the port to 3307, and resolve has returned
C5_Witness ==
    /\ file.kind = "none"
    /\ \A n \in EnvNames : ~EnvMissing(n)
    /\ loaded.status = "ok"
    /\ loaded.env.port = 3307
    /\ loaded.env.user = <<"eu">>

\* a line of a configuration file, as KEY=VALUE
SeparatorCount(line) == Cardinality({i \in 1..Len(line) : line[i] = "="})
LineKey(line) == Split(Strip(line), "=")[1]
LineValue(line) == Split(Strip(line), "=")[2]
RecognisedKeys == {<<n>> : n \in EnvNames}

WellFormed(lines) == \A i \in 1..Len(lines) : SeparatorCount(lines[i]) = 1
HasKey(lines, n) ==
    \E i \in 1..Len(lines) :
        SeparatorCount(lines[i]) = 1 /\ LineKey(lines[i]) = <<n>>

\* the value of key n: that of the last line that assigns it
ValueOfKey(lines, n) ==
    LET last == CHOOSE i \in 1..Len(lines) :
                    /\ LineKey(lines[i]) = <<n>>
                    /\ \A j \in (i + 1)..Len(lines) : LineKey(lines[j]) # <<n>>
    IN  LineValue(lines[last])

\* the file without its lines of unrecognised keys
RECURSIVE RecognisedOnly(_)
RecognisedOnly(lines) ==
    IF lines = <<>> THEN <<>>
    ELSE (IF LineKey(Head(lines)) \in RecognisedKeys
          THEN <<Head(lines)>> ELSE <<>>) \o RecognisedOnly(Tail(lines))

\* the lines the latest call of load read from the file object
LinesRead == IF calls = 1 THEN file.lines ELSE <<>>

\* C6: for a file of KEY=VALUE lines that has the six recognised keys, each
\* field of the result is the value of its key (the port as an integer), and
\* the lines of unrecognised keys do not change the result.
C6_FileFieldsFromKeys ==
    (/\ file.kind = "file"
     /\ calls = 1
     /\ WellFormed(file.lines)
     /\ \A n \in EnvNames : HasKey(file.lines, n))
    => /\ loaded.status = "ok"
            <=> IsIntLiteral(ValueOfKey(file.lines, "MYSQL_PORT"))
       /\ loaded.status = "ok" =>
            /\ \A f \in FieldSet \ {"port"} :
                   loaded.env[f] = ValueOfKey(file.lines, CONFIG_MAP[f])
            /\ loaded.env.port
                   = IntLiteralValue(ValueOfKey(file.lines, "MYSQL_PORT"))
       /\ loaded = Environ_load(FileOf(RecognisedOnly(file.lines)), environ)

\* a file with the six keys, port 1234, and a line of an unrecognised key
C6_Witness ==
    /\ file.kind = "file"
    /\ calls = 1
    /\ WellFormed(file.lines)
    /\ \A n \in EnvNames : HasKey(file.lines, n)
    /\ \E i \in 1..Len(file.lines) : LineKey(file.lines[i]) \notin RecognisedKeys
    /\ loaded.status = "ok"
    /\ loaded.env.host = <<"example">>
    /\ loaded.env.port = 1234

PortNotNumeric(lines) ==
    /\ WellFormed(lines)
    /\ HasKey(lines, "MYSQL_PORT")
    /\ ~IsIntLiteral(ValueOfKey(lines, "MYSQL_PORT"))

\* C7 as stated: resolve(file) fails if and only if some line does not
\* contain exactly one '=' or the resolved port is not numeric.
C7_Original ==
    (file.kind = "file" /\ calls = 1)
    => (loaded.status = "raised"
            <=> (~WellFormed(file.lines) \/ PortNotNumeric(file.lines)))

\* C7, amended: resolve(file) fails, and returns no parameter set, if and
\* only if some line read does not contain exactly one '=', or the lines
\* read lack one of the six recognised keys, or the resolved port is not
\* numeric.
C7_FailsIff ==
    (file.kind = "file" /\ calls >= 1)
    => /\ loaded.status \in {"ok", "raised"}
       /\ loaded.status = "raised"
            <=> \/ ~WellFormed(LinesRead)
                \/ \E n \in EnvNames : ~HasKey(LinesRead, n)
                \/ PortNotNumeric(LinesRead)

\* a well-formed file with a numeric port and no MYSQL_USER line has failed
C7_Witness ==
    /\ file.kind = "file"
    /\ calls = 1
    /\ WellFormed(file.lines)
    /\ ~HasKey(file.lines, "MYSQL_USER")
    /\ HasKey(file.lines, "MYSQL_PORT")
    /\ IsIntLiteral(ValueOfKey(file.lines, "MYSQL_PORT"))
    /\ loaded.status = "raised"

\* a further call of load is made on the same inputs
CalledAgain == calls >= 1 /\ calls' = calls + 1

\* what load raises when the lines it reads hold no key at all
NothingRead == Raised("KeyError", "MYSQL_HOST")

\* C16 as stated: two calls of resolve with the same inputs return identical
\* parameter sets, also when the same file object is passed to both.
C16_SameResultTwice ==
    [][(CalledAgain /\ loaded.status = "ok") => loaded' = loaded]_vars

\* the file object has been read to its end by an earlier call
AtEnd(f) == f.kind = "file" /\ f.pos > 0

\* C16, amended: a call that follows a call on the same inputs (no file and
\* the same environment, or a new file object on the same contents) returns
\* what that call returned, a parameter set or a failure; a call on a file
\* object that an earlier call has read reads no lines and fails for lack
\* of the recognised keys.
C16_SameResultUnlessSameFile ==
    [][CalledAgain =>
          IF AtEnd(file)
          THEN loaded' = NothingRead
          ELSE loaded # NothingRead => loaded' = loaded]_vars

\* a file with the six keys and a numeric port, loaded a second time through
\* a new file object: the second call returned a parameter set, as the first
C16_Witness ==
    /\ file.kind = "file"
    /\ calls = 2
    /\ AtEnd(file)
    /\ loaded.status = "ok"
    /\ loaded.env.port = 1234

\* the first field, in the order of __CONFIG_MAP, whose key the lines lack
FirstMissing(lines) ==
    LET i == CHOOSE j \in 1..Len(FieldNames) :
                 /\ ~HasKey(lines, CONFIG_MAP[FieldNames[j]])
                 /\ \A k \in 1..(j - 1) : HasKey(lines, CONFIG_MAP[FieldNames[k]])
    IN  CONFIG_MAP[FieldNames[i]]

\* C19: when a file is supplied and the lines read from it lack one of the
\* six recognised keys (an empty file, or a file object read a second time,
\* too), resolve fails and returns nothing: the missing field is filled
\* neither from the environment variables nor from the defaults.
C19_MissingKeyFails ==
    (/\ file.kind = "file"
     /\ calls >= 1
     /\ \E n \in EnvNames : ~HasKey(LinesRead, n))
    => /\ loaded.status = "raised"
       /\ "env" \notin DOMAIN loaded
       /\ WellFormed(LinesRead)
            => loaded = Raised("KeyError", FirstMissing(LinesRead))
       /\ ~WellFormed(LinesRead) => loaded.exc.cls = "ValueError"

\* a file whose only missing key is MYSQL_DATABASE, with every variable
\* set in the environment
C19_Witness ==
    /\ file.kind = "file"
    /\ calls = 1
    /\ WellFormed(file.lines)
    /\ \A n \in EnvNames \ {"MYSQL_DATABASE"} : HasKey(file.lines, n)
    /\ ~HasKey(file.lines, "MYSQL_DATABASE")
    /\ environ = FullEnviron
    /\ loaded = Raised("KeyError", "MYSQL_DATABASE")

----------------------------------------------------------------------------
(* Properties of the connection guard and the shell *)

Count(seq, x) == Cardinality({i \in 1..Len(seq) : seq[i] = x})
Printed(x) == \E i \in 1..Len(out) : out[i] = x

\* the places of the with block, as trail names them
BlockPlaces ==
    {"sql", "while", "_run", "select", "insert", "update", "except"}
    \cup LoopPcs

\* __enter__ returned and the with block was entered, and an exception has
\* been raised since: the first exception of the run was raised in the block
LeftByException == trail # <<>> /\ trail[1].at \in BlockPlaces

\* the connection scope: from the return of __enter__ to the end of __exit__
InScope == pc \in {"sql", "reraise", "cnx_exit"} \cup LoopPcs
ScopeLeft == pc \in {"handler", "done"} /\ LeftByException

\* C1: once a connection has been acquired, every path that leaves the
\* connection scope closes the connection exactly once and prints exactly
\* one 'Connection closed' notice.
C1_ClosedExactlyOnce ==
    /\ Count(out, ClosedNotice) <= 1
    /\ closes <= 1
    /\ ScopeLeft => /\ conn = "closed"
                    /\ closes = 1
                    /\ Count(out, ClosedNotice) = 1
    /\ (InScope /\ pc # "cnx_exit") => (conn = "open" /\ closes = 0)

\* CTRL+C arrived in the with block, in input() at the word prompt, at a
\* yes/no prompt or at the replacement prompt, with no exception before it
InterruptedInScope ==
    /\ trail # <<>>
    /\ trail[1].at \in LoopPcs
    /\ trail[1].cls = "KeyboardInterrupt"

\* C2: after a user interrupt inside the connection scope, the connection is
\* closed before the exit message is printed and before the process exits.
C2_ClosedBeforeExit ==
    InterruptedInScope =>
        /\ pc = "handler" => (conn = "closed" /\ ~Printed(ExitMessage(exc)))
        /\ Printed(ExitMessage(exc)) => conn = "closed"
        /\ pc = "done" => conn = "closed"

\* C3: a run ended by user cancellation or by an IncorrectCredentials
\* failure exits with code 0; a run ended by any other failure exits
\* with code 1.
C3_ExitCodes ==
    /\ pc = "done" =>
          /\ exc # NoExc
          /\ exit_code = IF exc.cls \in {"KeyboardInterrupt", "IncorrectLogin"}
                         THEN 0 ELSE 1
    /\ pc # "done" => exit_code = -1

\* the parameter set has been handed to the connection attempt
HandedToConnect == pc \notin {"main", "run"} \cup LoginPcs /\ creds # NoCreds

\* C8: the parameter set handed to the connection attempt has a port that
\* is a positive integer and has no empty field.
C8_ParametersValid ==
    HandedToConnect =>
        /\ creds.port.t = "int"
        /\ creds.port.v > 0
        /\ \A f \in FieldSet \ {"port"} :
               creds[f].t = "str" /\ creds[f].v # <<>>

\* the failure the specification gives for each driver error
ClaimedFailure(e) ==
    IF e.cls # "Error" THEN e
    ELSE CASE e.errno = "ER_ACCESS_DENIED_ERROR" ->
                Exc("IncorrectLogin", "",
                    <<"Could not login to host with user/password provided.">>,
                    <<e>>)
           [] e.errno = "ER_DBACCESS_DENIED_ERROR" ->
                Exc("AccessDenied", "", e.msg, <<e>>)
           [] e.errno = "ER_BAD_DB_ERROR" ->
                Exc("DatabaseNotFound", "", e.msg, <<e>>)
           [] OTHER -> e

\* __enter__ has raised, and Shell.run is about to handle what it raised
ConnectFailed ==
    pc = "handler" /\ trail # <<>> /\ trail[Len(trail)].at = "enter"

\* C10: a failed connection attempt is classified by the driver's error
\* category alone: access denied by credentials gives IncorrectCredentials
\* with the fixed message, access denied by privilege gives AccessDenied and
\* unknown database gives DatabaseNotFound, both with the driver's message,
\* and any other driver error is raised again unchanged.
C10_Classification ==
    ConnectFailed =>
        /\ exc \in {ClaimedFailure(o.exc) : o \in {c \in ConnectOutcomes : ~c.ok}}
        /\ exc.cls = "IncorrectLogin" <=>
              (exc.error # <<>> /\ exc.error[1].errno = "ER_ACCESS_DENIED_ERROR")
        /\ exc.cls = "AccessDenied" <=>
              (exc.error # <<>> /\ exc.error[1].errno = "ER_DBACCESS_DENIED_ERROR")
        /\ exc.cls = "DatabaseNotFound" <=>
              (exc.error # <<>> /\ exc.error[1].errno = "ER_BAD_DB_ERROR")
        /\ exc.cls = "Error" => exc.errno = "CR_CONN_HOST_ERROR"

\* the driver reported an unknown database
C10_Witness ==
    /\ ConnectFailed
    /\ exc.cls = "DatabaseNotFound"
    /\ exc.msg = <<"unknown">>
    /\ exc.error[1].errno = "ER_BAD_DB_ERROR"

----------------------------------------------------------------------------
(* Properties of the gateway *)

Returned(c) == c.outcome = "ok"
IsInsert(c, w) == c.op = "insert" /\ Returned(c) /\ c.new_word = w
IsUpdate(c, w, v) ==
    c.op = "update" /\ Returned(c) /\ c.word = w /\ c.new_word = v
IsSelect(c, w) == c.op = "select" /\ Returned(c) /\ c.word = w

\* C9: for distinct words w and v, after insert(w) select(w) returns a
\* record whose word is w; after a following update(w, v) select(v) returns
\* a record whose word is v and select(w) returns nothing.
C9_RoundTrip ==
    LET n == Len(queries)
    IN  \A w \in Words : \A v \in Words \ {w} :
          /\ (n >= 1 /\ IsInsert(queries[n], w))
                => Queries_select(db, w) = Row(w)
          /\ (n >= 2 /\ IsInsert(queries[n - 1], w) /\ IsUpdate(queries[n], w, v))
                => /\ Queries_select(db, v) = Row(v)
                   /\ Queries_select(db, w) = NoRow
          /\ \A i \in 2..n :
                (IsInsert(queries[i - 1], w) /\ IsSelect(queries[i], w))
                    => queries[i].row = Row(w)
          /\ \A i \in 3..n :
                (IsInsert(queries[i - 2], w) /\ IsUpdate(queries[i - 1], w, v))
                    => /\ IsSelect(queries[i], v) => queries[i].row = Row(v)
                       /\ IsSelect(queries[i], w) => queries[i].row = NoRow

\* insert(foo), update(foo, bar), select(bar) were called in turn
C9_Witness ==
    /\ Len(queries) = 3
    /\ IsInsert(queries[1], <<"foo">>)
    /\ IsUpdate(queries[2], <<"foo">>, <<"bar">>)
    /\ IsSelect(queries[3], <<"bar">>)
    /\ queries[3].row = Row(<<"bar">>)
    /\ Queries_select(db, <<"foo">>) = NoRow

----------------------------------------------------------------------------
(* Properties of the interactive loop *)

Last(seq) == seq[Len(seq)]

\* a call the loop makes on the gateway
LoopOps == {"select", "insert", "update"}
\* the call raised
Failed(c) == c.outcome # "ok"
\* the call raised something other than KeyboardInterrupt
FailedByError(c) == Failed(c) /\ c.outcome \notin InterruptOutcomes

\* the prompt at which the input of a call was read
PromptOfCall(c) ==
    CASE c.op = "select" -> <<"What word do you want to add/change: ">>
      [] c.op = "insert" ->
            <<"'">> \o c.new_word
                \o <<"' not found. Would you like to add it to the dictionary?\n[y/n] ">>
      [] c.op = "update" -> <<"Update ">> \o c.word \o <<" as: ">>

\* an item of the transcript is a prompt of the loop
IsPrompt(x) ==
    /\ x # <<>>
    /\ x[1] \in {"What word do you want to add/change: ", "'", "Found: ",
                 "Update "}

\* the prompt of the call is the last prompt printed
NoPromptSince(c) ==
    \E k \in 1..Len(out) :
        /\ out[k] = PromptOfCall(c)
        /\ \A j \in (k + 1)..Len(out) : ~IsPrompt(out[j])

\* the loop has been left: the exception is on its way out of Shell.run, or
\* the process has ended
LoopLeft == pc \in {"reraise", "cnx_exit", "handler", "done"}

\* C11: after a select, insert or update of the loop has failed, no further
\* prompt is shown and no further query is executed: the loop stops, the
\* connection is closed, and only then the handler prints its message and
\* the process ends.
C11_LoopAbortsOnQueryError ==
    \A i \in 1..Len(queries) :
        (queries[i].op \in LoopOps /\ FailedByError(queries[i])) =>
            /\ i = Len(queries)
            /\ LoopLeft
            /\ NoPromptSince(queries[i])
            /\ pc \in {"reraise", "cnx_exit"} =>
                   (conn = "open" /\ closes = 0 /\ ~Printed(ClosedNotice))
            /\ pc \in {"handler", "done"} => (conn = "closed" /\ closes = 1)
            /\ \A e \in {QueryError, KeyboardInterrupt} :
                   Printed(ExitMessage(e)) => conn = "closed"
            /\ pc = "done" <=> exit_code # -1

\* the version query of Queries.__init__ raised
SelfTestFailed ==
    Len(queries) >= 1 /\ queries[1].op = "version" /\ Failed(queries[1])

\* C12: if the version query issued when the gateway is constructed fails,
\* the failure leaves the construction: the loop is never entered (no word
\* prompt, no select, insert or update), the open connection is closed, and
\* the run ends with exit code 1.
C12_SelfTestFailureEndsRun ==
    (SelfTestFailed /\ FailedByError(queries[1])) =>
        /\ Len(queries) = 1
        /\ iter = 0
        /\ ~Printed(VersionNotice)
        /\ \A i \in 1..Len(out) : ~IsPrompt(out[i])
        /\ LoopLeft
        /\ pc \in {"reraise", "cnx_exit"} => (conn = "open" /\ closes = 0)
        /\ pc \in {"handler", "done"} => (conn = "closed" /\ closes = 1)
        /\ pc = "done" => exit_code = 1

WriteOps == {"insert", "update", "delete"}

\* call i is the latest write, and it returned
LatestWrite(i) ==
    /\ queries[i].op \in WriteOps
    /\ Returned(queries[i])
    /\ \A j \in (i + 1)..Len(queries) : queries[j].op \notin WriteOps

\* what the write of call c leaves in the committed table once committed
\* (an update of a word the table does not have changes nothing)
CommittedWrite(c) ==
    CASE c.op = "insert" -> db.committed[c.new_word] > 0
      [] c.op = "update" ->
            c.word # c.new_word => db.committed[c.word] = 0
      [] c.op = "delete" -> db.committed[c.word] = 0

AddedNotice(w) == w \o <<" added to the dictionary.">>
UpdatedNotice(w, v) == <<"Updated ">> \o w \o <<" to ">> \o v

\* the notice is what the process printed last
Told(notice) == Len(out) > 0 /\ Last(out) = notice

\* every write of the session returned
WritesReturned ==
    \A i \in 1..Len(queries) :
        queries[i].op \in WriteOps => Returned(queries[i])

\* C13: insert, update and delete commit before they return: while the loop
\* waits at a prompt, and when the connection is about to be closed after
\* writes that returned, nothing executed is uncommitted; a word the user
\* was told was added or updated is committed, however the session ends.
C13_CommittedBeforeReturn ==
    /\ pc \in LoopPcs => db.txn = db.committed
    /\ (pc \in {"reraise", "cnx_exit"} /\ WritesReturned) =>
          db.txn = db.committed
    /\ \A w \in Words :
          /\ Told(AddedNotice(w)) =>
                /\ IsInsert(Last(queries), w)
                /\ db.committed[w] > 0
          /\ \A v \in Words :
                Told(UpdatedNotice(w, v)) =>
                    /\ IsUpdate(Last(queries), w, v)
                    /\ db.committed[v] > 0
    /\ \A i \in 1..Len(queries) :
          LatestWrite(i) =>
              /\ CommittedWrite(queries[i])
              /\ db.txn = db.committed

\* a client inserted bar, updated it to foo and deleted foo, and each call
\* returned: the committed table is empty
C13_Witness ==
    /\ Len(queries) = 3
    /\ IsInsert(queries[1], <<"bar">>)
    /\ IsUpdate(queries[2], <<"bar">>, <<"foo">>)
    /\ queries[3].op = "delete"
    /\ queries[3].word = <<"foo">>
    /\ Returned(queries[3])
    /\ db.committed = EmptyTable
    /\ db.txn = EmptyTable

\* the call before call i was select(w), and it returned row
AfterSelect(i, w, row) ==
    i > 1 /\ queries[i - 1] = Call("select", w, <<>>, "ok", row)

\* what the loop has called on the gateway
LoopCallsInOrder ==
    \A i \in 1..Len(queries) :
        /\ queries[i].op # "delete"
        /\ queries[i].op = "insert" =>
              AfterSelect(i, queries[i].new_word, NoRow)
        /\ queries[i].op = "update" =>
              AfterSelect(i, queries[i].word, Row(queries[i].word))

\* after a negative answer the iteration has made no call but its select
DeclinedWritesNothing == decision = "False" => Last(queries).op = "select"

\* one step of the program: a write is called only on an affirmative
\* answer, the committed table changes only with an insert or update made on
\* one, and a negative answer changes neither the table nor the calls made
WrittenOnYes ==
    /\ (Len(queries') > Len(queries) /\ Last(queries').op \in WriteOps) =>
          decision' = "True"
    /\ db'.committed # db.committed =>
          /\ decision' = "True"
          /\ Len(queries') = Len(queries) + 1
          /\ Last(queries').op \in {"insert", "update"}
    /\ (decision' = "False" /\ decision = NotDecided) =>
          (db' = db /\ queries' = queries)

\* C17: in every iteration the table is written at most once and only after
\* an affirmative answer: insert(term) only when select(term) returned
\* nothing, update(found, replacement) only when select(term) returned a
\* record; a negative answer leaves the table unchanged; delete is never
\* called.
C17_WritesOnlyOnYes ==
    /\ [](LoopCallsInOrder /\ DeclinedWritesNothing)
    /\ [][WrittenOnYes]_vars

\* in the first iteration the user declined to update foo, in the second
\* bar was added
C17_Witness ==
    /\ Len(queries) = 4
    /\ queries[2] = Call("select", <<"foo">>, <<>>, "ok", Row(<<"foo">>))
    /\ queries[3] = Call("select", <<"bar">>, <<>>, "ok", NoRow)
    /\ queries[4] = Call("insert", <<>>, <<"bar">>, "ok", NoRow)
    /\ decision = "True"
    /\ db.committed = [w \in Words |-> 1]

\* C18: a failed connection attempt is followed by no close and no
\* 'Connection closed' notice: the close notices never outnumber the
\* 'Connected successfully' notices, and the two are equal when the process
\* exits.
C18_ClosedOnlyIfConnected ==
    LET connected == Count(out, ConnectedNotice)
        closed == Count(out, ClosedNotice)
    IN  /\ closed <= connected
        /\ closes <= connected
        /\ pc = "done" => (closed = connected /\ closes = connected)
        /\ (ConnectFailed /\ conn = "none") =>
              (connected = 0 /\ closes = 0 /\ closed = 0)
        /\ (pc = "done" /\ conn = "none") => (closes = 0 /\ closed = 0)

----------------------------------------------------------------------------
(* Properties of the yes/no prompt *)

\* the tokens of the prompt: y, yes, n, no and their capitalised forms
ListedTokens ==
    {<<"y">>, <<"Y">>, <<"yes">>, <<"Yes">>, <<"n">>, <<"N">>, <<"no">>, <<"No">>}
Affirmative(a) == LowerCase(a) \in {<<"y">>, <<"yes">>}
Negative(a) == LowerCase(a) \in {<<"n">>, <<"no">>}

\* the positions of the answers read that are not tokens of the prompt
InvalidAnswers == {i \in 1..Len(answers) : answers[i] \notin ListedTokens}

\* C14: for invalid answers followed by one valid token, the prompt prints
\* exactly one re-prompt message per invalid answer and returns one boolean,
\* true exactly when the token is affirmative, false when it is negative.
C14_OneRepromptPerInvalid ==
    /\ Count(out, RepromptNotice) = Cardinality(InvalidAnswers)
    /\ Len(out) = Len(answers) + Cardinality(InvalidAnswers)
    /\ pc = "returned" =>
          /\ Len(answers) >= 1
          /\ InvalidAnswers = 1..(Len(answers) - 1)
          /\ decision \in {"True", "False"}
          /\ decision = "True" <=> Affirmative(Last(answers))
          /\ decision = "False" <=> Negative(Last(answers))
    /\ pc # "returned" =>
          /\ decision = NotDecided
          /\ InvalidAnswers = 1..Len(answers)

\* two invalid answers, then yes
C14_Witness ==
    /\ pc = "returned"
    /\ answers = << <<"maybe">>, <<>>, <<"yes">> >>
    /\ Count(out, RepromptNotice) = 2
    /\ decision = "True"

\* the answer at position i ended the prompt
EndedPrompt(i) == i = Len(answers) /\ pc = "returned"

\* C15 as stated: an answer that is y, yes, n or no in any letter case ends
\* the prompt with the matching decision instead of being re-prompted.
C15_AnyLetterCase ==
    \A i \in 1..Len(answers) :
        (Affirmative(answers[i]) \/ Negative(answers[i])) =>
            /\ EndedPrompt(i)
            /\ decision = PyBool(Affirmative(answers[i]))

\* C15, amended: an answer ends the prompt, with the matching decision,
\* exactly when it is y, yes, n or no in lower case or with its first letter
\* capitalised; any other answer, YES and NO too, is answered by the
\* re-prompt message and the prompt again.
C15_ListedTokensOnly ==
    \A i \in 1..Len(answers) :
        /\ answers[i] \in ListedTokens <=> EndedPrompt(i)
        /\ EndedPrompt(i) => decision = PyBool(Affirmative(answers[i]))
        /\ answers[i] \notin ListedTokens =>
              /\ out[2 * i - 1] = PromptText("prompt_yn")
              /\ out[2 * i] = RepromptNotice
              /\ Len(out) > 2 * i \/ pc = "prompt_yn"

\* YES was re-prompted, Yes then ended the prompt
C15_Witness ==
    /\ answers = << <<"YES">>, <<"Yes">> >>
    /\ pc = "returned"
    /\ decision = "True"
    /\ out = <<PromptText("prompt_yn"), RepromptNotice, PromptText("prompt_yn")>>

====
